---- MODULE Spec2Model ----
(***************************************************************************)
(* A model of the data/space layer of the Non-Metric Space Library:        *)
(*   - the phase flag of Space<dist_t> (space.h),                          *)
(*   - the sparse-vector text parser (space_sparse_vector.cc),             *)
(*   - the word-embedding record reader/writer (space_word_embed.cc),      *)
(*   - the input cursor DataFileInputState (space.h).                      *)
(* Text is modelled as sequences of one-character strings.                 *)
(***************************************************************************)
EXTENDS Integers, Sequences, FiniteSets, TLC

VARIABLES
  spaces,      \* the Space instances alive, in order of creation
  hist,        \* per instance: the last phase switch made from outside
  op,          \* the last operation of the phase protocol
  lastCall,    \* the last IndexTimeDistance call and its outcome
  mode,        \* two-thread scenario: does the querier share or clone?
  pc,          \* two-thread scenario: position of each thread
  qspace,      \* two-thread scenario: the instance the querier uses
  bcall,       \* two-thread scenario: the builder's call in progress
  bres,        \* two-thread scenario: outcome of the builder's last call
  line,        \* sparse parser: the text given to CreateObjFromStr
  outcome,     \* sparse parser: "idle", "ok" (object built) or "fatal"
  label,       \* sparse parser: label of the object built
  v,           \* sparse parser: the (id_, val_) elements of the object built
  err,         \* sparse parser: the exception logged before the fatal exit
  variant,     \* cursor: the Space that reads, "sparse" or "wordembed"
  inp_file_,   \* cursor: the input stream (data, position, eofbit, failbit)
  line_num_,   \* cursor: DataFileInputState::line_num_
  strObj,      \* cursor: the text of the record, as left by the last call
  externId,    \* cursor: the external id, as left by the last call
  ret,         \* cursor: "true", "false" or "throw" of the last call
  stage,       \* word-embedding file: "writing", then "reading"
  out_file_,   \* word-embedding file: the characters written so far
  written,     \* word-embedding file: the (id, payload) of each line written
  wres         \* word-embedding file: outcome of the last WriteNextObj

phaseVars  == <<spaces, hist, op, lastCall>>
raceVars   == <<mode, pc, qspace, bcall, bres>>
sparseVars == <<line, outcome, label, v, err>>
cursorVars == <<variant, inp_file_, line_num_, strObj, externId, ret>>
fileVars   == <<stage, out_file_, written, wres>>
vars == <<spaces, hist, op, lastCall, mode, pc, qspace, bcall, bres,
          line, outcome, label, v, err,
          variant, inp_file_, line_num_, strObj, externId, ret,
          stage, out_file_, written, wres>>

----------------------------------------------------------------------------
(* Bounds *)
MaxSpaces == 3     \* instances created (the original and its clones)
MaxVal    == 2     \* objects are one-element vectors with value 0..MaxVal

----------------------------------------------------------------------------
(* Space<dist_t>: phase flag, Clone, IndexTimeDistance *)

Objects == 0..MaxVal
DistTypes == {"l2", "cosine"}

Abs(x) == IF x < 0 THEN -x ELSE x

\* L2 norm of the difference of two one-element vectors
L2NormSIMD(x, y) == Abs(x - y)

\* 1 - cos of the angle between two one-element non-negative vectors
CosineSimilarity(x, y) == IF x = 0 \/ y = 0 THEN 1 ELSE 0

HiddenDistance(sp, obj1, obj2) ==
  IF sp.distType_ = "l2" THEN L2NormSIMD(obj1, obj2)
  ELSE CosineSimilarity(obj1, obj2)

\* a freshly constructed instance: bool mutable bIndexPhase = true
NewSpace(distType) == [bIndexPhase |-> TRUE, distType_ |-> distType]

SetIndexPhase(sps, i) == [sps EXCEPT ![i].bIndexPhase = TRUE]

SetQueryPhaseGlobal(sps, i) ==
  [j \in DOMAIN sps |-> [sps[j] EXCEPT !.bIndexPhase = FALSE]]

SetQueryPhase(sps, i) == [sps EXCEPT ![i].bIndexPhase = FALSE]

HiddenClone(sp) == NewSpace(sp.distType_)

CloneKeepPhase(sps, src) == Append(sps, sps[src])

\* the instance list after cloning instance src; the clone is the last one
Clone(sps, src) ==
  SetIndexPhase(Append(sps, HiddenClone(sps[src])), Len(sps) + 1)

Ok(val) == [kind |-> "ok", val |-> val]
NoResult == [kind |-> "none", val |-> 0]

\* runtime_error("... accessible only during the indexing phase!")
PhaseViolation == [kind |-> "throw", val |-> -1]

IndexTimeDistanceUnchecked(sp, obj1, obj2) ==
  Ok(HiddenDistance(sp, obj1, obj2))

IndexTimeDistance(sp, obj1, obj2) ==
  IF ~sp.bIndexPhase
    THEN PhaseViolation
    ELSE Ok(HiddenDistance(sp, obj1, obj2))

NoCall == [inst |-> 0, hist |-> "new", obj1 |-> 0, obj2 |-> 0,
           res |-> NoResult]
NoOp == [name |-> "none", inst |-> 0]

NoErr == [kind |-> "none", prevId |-> 0, prevVal |-> <<0, 0>>,
          id |-> 0, val |-> <<0, 0>>, i |-> 0]
EMPTY_LABEL == -1

\* the parts of the state a specification does not use stay as they are here
InitRaceIdle ==
  /\ mode = "none"
  /\ pc = [builder |-> "off", querier |-> "off"]
  /\ qspace = 0
  /\ bcall = <<0, 0>>
  /\ bres = NoResult

InitSparseIdle ==
  /\ line = <<>>
  /\ outcome = "idle"
  /\ label = EMPTY_LABEL
  /\ v = <<>>
  /\ err = NoErr

\* ifstream just opened on a file that holds the characters data
OpenedFile(data) == [data |-> data, pos |-> 0, eofbit |-> FALSE, failbit |-> FALSE]

InitCursorIdle ==
  /\ variant = "none"
  /\ inp_file_ = OpenedFile(<<>>)
  /\ line_num_ = 0
  /\ strObj = <<>>
  /\ externId = <<>>
  /\ ret = "none"

InitFileIdle ==
  /\ stage = "none"
  /\ out_file_ = <<>>
  /\ written = <<>>
  /\ wres = "none"

InitPhaseIdle ==
  /\ spaces = <<>>
  /\ hist = <<>>
  /\ op = NoOp
  /\ lastCall = NoCall

InitPhase ==
  /\ \E d \in DistTypes : spaces = <<NewSpace(d)>>
  /\ hist = <<"new">>
  /\ op = NoOp
  /\ lastCall = NoCall
  /\ InitRaceIdle
  /\ InitSparseIdle
  /\ InitCursorIdle
  /\ InitFileIdle

DoSetIndexPhase(i) ==
  /\ spaces' = SetIndexPhase(spaces, i)
  /\ hist' = [hist EXCEPT ![i] = "index"]
  /\ op' = [name |-> "SetIndexPhase", inst |-> i]
  /\ UNCHANGED <<lastCall, raceVars, sparseVars, cursorVars, fileVars>>

DoSetQueryPhase(i) ==
  /\ spaces' = SetQueryPhase(spaces, i)
  /\ hist' = [hist EXCEPT ![i] = "query"]
  /\ op' = [name |-> "SetQueryPhase", inst |-> i]
  /\ UNCHANGED <<lastCall, raceVars, sparseVars, cursorVars, fileVars>>

DoClone(i) ==
  /\ Len(spaces) < MaxSpaces
  /\ spaces' = Clone(spaces, i)
  /\ hist' = Append(hist, "new")
  /\ op' = [name |-> "Clone", inst |-> i]
  /\ UNCHANGED <<lastCall, raceVars, sparseVars, cursorVars, fileVars>>

DoIndexTimeDistance(i, obj1, obj2) ==
  /\ lastCall' = [inst |-> i, hist |-> hist[i], obj1 |-> obj1, obj2 |-> obj2,
                  res |-> IndexTimeDistance(spaces[i], obj1, obj2)]
  /\ op' = [name |-> "IndexTimeDistance", inst |-> i]
  /\ UNCHANGED <<spaces, hist, raceVars, sparseVars, cursorVars, fileVars>>

NextPhase ==
  \/ \E i \in 1..Len(spaces) : DoSetIndexPhase(i)
  \/ \E i \in 1..Len(spaces) : DoSetQueryPhase(i)
  \/ \E i \in 1..Len(spaces) : DoClone(i)
  \/ \E i \in 1..Len(spaces) : \E obj1, obj2 \in Objects :
       DoIndexTimeDistance(i, obj1, obj2)

SpecPhase == InitPhase /\ [][NextPhase]_vars

----------------------------------------------------------------------------
(* Two threads on one process: a builder that calls IndexTimeDistance on    *)
(* instance 1 and never switches a phase, and a querier that switches the  *)
(* phase of the instance it uses: instance 1 itself, or a Clone() of it.   *)
(* bIndexPhase is a plain bool, read at space.h:118 and written at         *)
(* space.h:205-206 without synchronisation; the builder's read sees the    *)
(* value before or after a concurrent write.                               *)

InitRace ==
  /\ \E d \in DistTypes : spaces = <<NewSpace(d)>>
  /\ hist = <<"new">>
  /\ op = NoOp
  /\ lastCall = NoCall
  /\ mode \in {"shared", "clone"}
  /\ pc = [builder |-> "idle", querier |-> "start"]
  /\ qspace = 0
  /\ bcall = <<0, 0>>
  /\ bres = NoResult
  /\ InitSparseIdle
  /\ InitCursorIdle
  /\ InitFileIdle

\* the builder enters IndexTimeDistance(obj1, obj2) on instance 1
B_Enter(obj1, obj2) ==
  /\ pc.builder = "idle"
  /\ bcall' = <<obj1, obj2>>
  /\ pc' = [pc EXCEPT !.builder = "check"]
  /\ UNCHANGED <<phaseVars, mode, qspace, bres, sparseVars, cursorVars, fileVars>>

\* the builder reads the flag and throws or returns the distance
B_Check ==
  /\ pc.builder = "check"
  /\ bres' = IndexTimeDistance(spaces[1], bcall[1], bcall[2])
  /\ pc' = [pc EXCEPT !.builder = "idle"]
  /\ UNCHANGED <<phaseVars, mode, qspace, bcall, sparseVars, cursorVars, fileVars>>

\* the querier takes the instance it will use
Q_Acquire ==
  /\ pc.querier = "start"
  /\ IF mode = "clone"
       THEN /\ spaces' = Clone(spaces, 1)
            /\ hist' = Append(hist, "new")
            /\ qspace' = Len(spaces) + 1
       ELSE /\ qspace' = 1
            /\ UNCHANGED <<spaces, hist>>
  /\ pc' = [pc EXCEPT !.querier = "index"]
  /\ UNCHANGED <<op, lastCall, mode, bcall, bres, sparseVars, cursorVars, fileVars>>

Q_SetQueryPhase ==
  /\ pc.querier = "index"
  /\ spaces' = SetQueryPhase(spaces, qspace)
  /\ hist' = [hist EXCEPT ![qspace] = "query"]
  /\ pc' = [pc EXCEPT !.querier = "query"]
  /\ UNCHANGED <<op, lastCall, mode, qspace, bcall, bres, sparseVars, cursorVars, fileVars>>

Q_SetIndexPhase ==
  /\ pc.querier = "query"
  /\ spaces' = SetIndexPhase(spaces, qspace)
  /\ hist' = [hist EXCEPT ![qspace] = "index"]
  /\ pc' = [pc EXCEPT !.querier = "index"]
  /\ UNCHANGED <<op, lastCall, mode, qspace, bcall, bres, sparseVars, cursorVars, fileVars>>

NextRace ==
  \/ \E obj1, obj2 \in Objects : B_Enter(obj1, obj2)
  \/ B_Check
  \/ Q_Acquire
  \/ Q_SetQueryPhase
  \/ Q_SetIndexPhase

SpecRace == InitRace /\ [][NextRace]_vars

----------------------------------------------------------------------------
(* Text: a string is a sequence of one-character strings *)

MaxToks == 4       \* tokens after the optional label in a sparse line

IsSpace(c) == c \in {" ", "\t", "\n"}
IsDigit(c) == c \in {"0", "1", "2", "3", "4", "5", "6", "7", "8", "9"}
DigitVal(c) ==
  CASE c = "0" -> 0 [] c = "1" -> 1 [] c = "2" -> 2 [] c = "3" -> 3
    [] c = "4" -> 4 [] c = "5" -> 5 [] c = "6" -> 6 [] c = "7" -> 7
    [] c = "8" -> 8 [] c = "9" -> 9

Substr(s, from) == SubSeq(s, from, Len(s))

RECURSIVE SkipWs(_, _)
\* first position >= p of s that holds no white space (Len(s)+1 if none)
SkipWs(s, p) ==
  IF p <= Len(s) /\ IsSpace(s[p]) THEN SkipWs(s, p + 1) ELSE p

RECURSIVE DigitsEnd(_, _)
\* first position >= p of s that holds no digit
DigitsEnd(s, p) ==
  IF p <= Len(s) /\ IsDigit(s[p]) THEN DigitsEnd(s, p + 1) ELSE p

RECURSIVE NumVal(_, _, _)
\* the number written by the digits s[a..b-1]
NumVal(s, a, b) ==
  IF b <= a THEN 0 ELSE NumVal(s, a, b - 1) * 10 + DigitVal(s[b - 1])

RECURSIVE Pow10(_)
Pow10(k) == IF k = 0 THEN 1 ELSE 10 * Pow10(k - 1)

RECURSIVE Dec(_, _)
\* the value n / 10^k of a dist_t, in lowest terms: <<n, k>>
Dec(n, k) == IF k > 0 /\ n % 10 = 0 THEN Dec(n \div 10, k - 1) ELSE <<n, k>>

\* str >> id (uint32_t): skips white space, reads a run of digits; fails
\* (failbit) when there is none.  [ok, val, pos]: pos is the next position.
ReadUInt(s, p) ==
  LET b == SkipWs(s, p)
      e == DigitsEnd(s, b)
  IN  [ok |-> e > b, val |-> NumVal(s, b, e), pos |-> e]

\* str >> val (dist_t): skips white space, reads digits [. digits]; fails
\* when no digit was read.
ReadFloat(s, p) ==
  LET b   == SkipWs(s, p)
      ie  == DigitsEnd(s, b)
      dot == ie <= Len(s) /\ s[ie] = "."
      fe  == IF dot THEN DigitsEnd(s, ie + 1) ELSE ie
      k   == IF dot THEN fe - ie - 1 ELSE 0
  IN  [ok  |-> (ie - b) + k > 0,
       val |-> IF dot
                 THEN Dec(NumVal(s, b, ie) * Pow10(k) + NumVal(s, ie + 1, fe), k)
                 ELSE Dec(NumVal(s, b, ie), 0),
       pos |-> fe]

----------------------------------------------------------------------------
(* SpaceSparseVector<dist_t>::ReadSparseVec and CreateObjFromStr *)

LABEL_PREFIX == <<"l", "a", "b", "e", "l", ":">>

HasLabelPrefix(s) ==
  /\ Len(s) > Len(LABEL_PREFIX) + 1
  /\ SubSeq(s, 1, Len(LABEL_PREFIX)) = LABEL_PREFIX

RECURSIVE FirstSpaceFrom(_, _)
\* first position >= p of s that holds white space (0 if none)
FirstSpaceFrom(s, p) ==
  IF p > Len(s) THEN 0
  ELSE IF IsSpace(s[p]) THEN p ELSE FirstSpaceFrom(s, p + 1)

\* Object::extractLabel(string&): a line that starts with "label:<n> " gives
\* label n, and the label token and the white space after it are cut from
\* the line; any other line gives EMPTY_LABEL and is left as it is.
extractLabel(s) ==
  LET p == FirstSpaceFrom(s, Len(LABEL_PREFIX) + 1)
  IN  IF HasLabelPrefix(s) /\ p > 0
        THEN [label |-> NumVal(s, Len(LABEL_PREFIX) + 1,
                               DigitsEnd(s, Len(LABEL_PREFIX) + 1)),
              rest  |-> Substr(s, SkipWs(s, p))]
        ELSE [label |-> EMPTY_LABEL, rest |-> s]

\* ReplaceSomePunct(string&): ',' and ':' become blanks
ReplaceSomePunct(s) ==
  [i \in 1..Len(s) |-> IF s[i] \in {",", ":"} THEN " " ELSE s[i]]

RECURSIVE ReadPairs(_, _, _)
\* while (str >> id && str >> val) v.push_back(ElemType(id, val));
ReadPairs(str, p, acc) ==
  LET rid == ReadUInt(str, p)
  IN  IF ~rid.ok THEN acc
      ELSE LET rval == ReadFloat(str, rid.pos)
           IN  IF ~rval.ok THEN acc
               ELSE ReadPairs(str, rval.pos,
                              Append(acc, [id_ |-> rid.val, val_ |-> rval.val]))

RECURSIVE InsertById(_, _)
\* e put into the sorted sequence s, after the elements not greater than it
InsertById(s, e) ==
  IF s = <<>> THEN <<e>>
  ELSE IF s[Len(s)].id_ <= e.id_ THEN Append(s, e)
  ELSE Append(InsertById(SubSeq(s, 1, Len(s) - 1), e), s[Len(s)])

RECURSIVE SortById(_)
NoSort(s) == s

\* sort(v.begin(), v.end()) with SparseVectElem::operator<, which compares id_
SortById(s) ==
  IF s = <<>> THEN <<>>
  ELSE InsertById(SortById(SubSeq(s, 1, Len(s) - 1)), s[Len(s)])

RECURSIVE CheckSorted(_, _)
\* the validation loop over i = 1 .. v.size()-1 (here positions i+1): the
\* exception thrown at the first offending position, NoErr if there is none
CheckSorted(s, i) ==
  IF i >= Len(s) THEN NoErr
  ELSE LET prev == s[i]
           cur  == s[i + 1]
           e(kind) == [kind |-> kind, prevId |-> prev.id_, prevVal |-> prev.val_,
                       id |-> cur.id_, val |-> cur.val_, i |-> i]
       IN  IF cur.id_ = prev.id_ THEN e("RepeatingID")
           ELSE IF cur.id_ < prev.id_ THEN e("NotSorted")
           ELSE CheckSorted(s, i + 1)

\* ReadSparseVec(line, line_num, label, v): the stream str is built from the
\* line as passed in (space_sparse_vector.cc:39), before extractLabel and
\* ReplaceSomePunct rewrite the local copy of the line (lines 46-48).
ReadSparseVec(s) ==
  LET str   == s
      lab   == extractLabel(s)
      line2 == ReplaceSomePunct(lab.rest)
      read  == ReadPairs(str, 1, <<>>)
      srt   == SortById(read)
      e     == CheckSorted(srt, 1)
  IN  [label |-> lab.label, v |-> srt, err |-> e, logged |-> line2]

\* tokens of the input lines
TokenSet == { <<"5">>, <<"1", "0">>, <<"1", ".", "5">>, <<"2", ".", "0">>,
              <<"x">>, <<"7", ":", "3">> }
LabelToken == LABEL_PREFIX \o <<"3">>

RECURSIVE Join(_)
\* the tokens of ts, separated by single blanks
Join(ts) ==
  IF ts = <<>> THEN <<>>
  ELSE IF Len(ts) = 1 THEN ts[1]
  ELSE ts[1] \o <<" ">> \o Join(Substr(ts, 2))

TokenSeqs == UNION { [1..n -> TokenSet] : n \in 0..MaxToks }
Lines == { Join(ts) : ts \in TokenSeqs }
           \cup { Join(<<LabelToken>> \o ts) : ts \in TokenSeqs }

InitSparse ==
  /\ line \in Lines
  /\ outcome = "idle"
  /\ label = EMPTY_LABEL
  /\ v = <<>>
  /\ err = NoErr
  /\ InitPhaseIdle
  /\ InitRaceIdle
  /\ InitCursorIdle
  /\ InitFileIdle

\* CreateObjFromStr(id, label, s, pInpState) on s = line: ReadSparseVec, then
\* CreateObjFromVect unless LOG(LIB_FATAL) has ended the process
CreateObjFromStr ==
  /\ outcome = "idle"
  /\ LET r == ReadSparseVec(line)
     IN  IF r.err.kind # "none"
           THEN /\ outcome' = "fatal"
                /\ err' = r.err
                /\ UNCHANGED <<label, v>>
           ELSE /\ outcome' = "ok"
                /\ label' = r.label
                /\ v' = r.v
                /\ UNCHANGED err
  /\ UNCHANGED <<line, phaseVars, raceVars, cursorVars, fileVars>>

NextSparse == CreateObjFromStr

SpecSparse == InitSparse /\ [][NextSparse]_vars

----------------------------------------------------------------------------
(* DataFileInputState and ReadNextObjStr of both spaces *)

MaxFileLen == 4    \* characters in an input file

RECURSIVE FirstNewlineFrom(_, _)
\* first position >= p of s that holds a line end (0 if none)
FirstNewlineFrom(s, p) ==
  IF p > Len(s) THEN 0
  ELSE IF s[p] = "\n" THEN p ELSE FirstNewlineFrom(s, p + 1)

\* getline(inp_file_, strObj) with strObj = old: a stream that is not good
\* only gets failbit; otherwise the characters up to the line end (taken
\* and dropped) or to the end of the data (eofbit) are stored, and failbit
\* is set when nothing at all was taken.
Getline(f, old) ==
  IF f.eofbit \/ f.failbit
    THEN [f |-> [f EXCEPT !.failbit = TRUE], ok |-> FALSE, str |-> old]
    ELSE LET nl == FirstNewlineFrom(f.data, f.pos + 1)
         IN  IF nl > 0
               THEN [f |-> [f EXCEPT !.pos = nl], ok |-> TRUE,
                     str |-> SubSeq(f.data, f.pos + 1, nl - 1)]
             ELSE IF f.pos < Len(f.data)
               THEN [f |-> [f EXCEPT !.pos = Len(f.data), !.eofbit = TRUE],
                     ok |-> TRUE, str |-> Substr(f.data, f.pos + 1)]
             ELSE [f |-> [f EXCEPT !.eofbit = TRUE, !.failbit = TRUE],
                   ok |-> FALSE, str |-> <<>>]

\* the cursor and the out-parameters after a call, and what the call returned
CallState(f, n, str, id, r) ==
  [inp_file_ |-> f, line_num_ |-> n, strObj |-> str, externId |-> id, ret |-> r]

\* SpaceSparseVector<dist_t>::ReadNextObjStr
Sparse_ReadNextObjStr(f, n, str) ==
  IF f.failbit THEN CallState(f, n, str, <<>>, "false")
  ELSE LET g == Getline(f, str)
       IN  IF ~g.ok THEN CallState(g.f, n, g.str, <<>>, "false")
           ELSE CallState(g.f, n + 1, g.str, <<>>, "true")

RECURSIVE LastSpaceUpTo(_, _)
LastSpaceUpTo(s, p) ==
  IF p = 0 THEN 0 ELSE IF IsSpace(s[p]) THEN p ELSE LastSpaceUpTo(s, p - 1)
LastWhiteSpace(s) == LastSpaceUpTo(s, Len(s))

\* the loop of space_word_embed.cc:58-59: position of the first white space
\* of s (0 if there is none; the code uses 0-based positions and -1)
FirstWhiteSpace(s) == FirstSpaceFrom(s, 1)

WordEmbed_ReadNextObjStr_CountLate(f, n, str) ==
  IF f.failbit THEN CallState(f, n, str, <<>>, "false")
  ELSE LET g == Getline(f, str)
       IN  IF ~g.ok THEN CallState(g.f, n, g.str, <<>>, "false")
           ELSE LET pos == FirstWhiteSpace(g.str)
                IN  IF pos = 0
                      THEN CallState(g.f, n, g.str, <<>>, "throw")
                      ELSE CallState(g.f, n + 1, Substr(g.str, pos + 1),
                                     SubSeq(g.str, 1, pos - 1), "true")

\* WordEmbedSpace<dist_t>::ReadNextObjStr
WordEmbed_ReadNextObjStr(f, n, str) ==
  IF f.failbit THEN CallState(f, n, str, <<>>, "false")
  ELSE LET g == Getline(f, str)
       IN  IF ~g.ok THEN CallState(g.f, n, g.str, <<>>, "false")
           ELSE LET pos == FirstWhiteSpace(g.str)
                IN  IF pos = 0
                      THEN CallState(g.f, n + 1, g.str, <<>>, "throw")
                      ELSE CallState(g.f, n + 1, Substr(g.str, pos + 1),
                                     SubSeq(g.str, 1, pos - 1), "true")

FileChars == {"a", " ", "\t", "\n"}
ExampleFile == <<"c", "a", "t", " ", "0", ".", "1", " ", "0", ".", "2",
                 " ", "0", ".", "3", "\n">>
Files == UNION { [1..n -> FileChars] : n \in 0..MaxFileLen } \cup {ExampleFile}

\* OpenReadFileHeader has built the DataFileInputState: line_num_(0)
InitCursor ==
  /\ variant \in {"sparse", "wordembed"}
  /\ \E data \in Files : inp_file_ = OpenedFile(data)
  /\ line_num_ = 0
  /\ strObj = <<>>
  /\ externId = <<>>
  /\ ret = "none"
  /\ stage = "reading"
  /\ out_file_ = <<>>
  /\ written = <<>>
  /\ wres = "none"
  /\ InitPhaseIdle
  /\ InitRaceIdle
  /\ InitSparseIdle

SetCallState(c) ==
  /\ inp_file_' = c.inp_file_
  /\ line_num_' = c.line_num_
  /\ strObj' = c.strObj
  /\ externId' = c.externId
  /\ ret' = c.ret

ReadNextObjStr_Sparse ==
  /\ variant = "sparse"
  /\ stage = "reading"
  /\ SetCallState(Sparse_ReadNextObjStr(inp_file_, line_num_, strObj))
  /\ UNCHANGED <<variant, fileVars, phaseVars, raceVars, sparseVars>>

ReadNextObjStr_WordEmbed ==
  /\ variant = "wordembed"
  /\ stage = "reading"
  /\ SetCallState(WordEmbed_ReadNextObjStr(inp_file_, line_num_, strObj))
  /\ UNCHANGED <<variant, fileVars, phaseVars, raceVars, sparseVars>>

NextCursor ==
  \/ ReadNextObjStr_Sparse
  \/ ReadNextObjStr_WordEmbed

SpecCursor == InitCursor /\ [][NextCursor]_vars

----------------------------------------------------------------------------
(* WordEmbedSpace<dist_t>::CreateStrFromObj, WriteNextObj, and reading the  *)
(* written file back                                                       *)

MaxRecords == 2    \* lines written to a word-embedding file
MaxDim     == 2    \* elements of a word-embedding vector

RECURSIVE DigitsOf(_, _)
\* the decimal digits of n, at least width of them
DigitsOf(n, width) ==
  LET d == <<"0", "1", "2", "3", "4", "5", "6", "7", "8", "9">>[(n % 10) + 1]
  IN  IF n < 10 /\ width <= 1 THEN <<d>>
      ELSE Append(DigitsOf(n \div 10, width - 1), d)

\* out << setprecision(max_digits10) << val, for the value n / 10^k
FormatFloat(val) ==
  LET n == val[1]
      k == val[2]
  IN  IF k = 0 THEN DigitsOf(n, 1)
      ELSE DigitsOf(n \div Pow10(k), 1) \o <<".">> \o DigitsOf(n % Pow10(k), k)

RECURSIVE VectorSpace_CreateStrFromObj(_)
\* the elements of the vector, separated by single blanks
VectorSpace_CreateStrFromObj(obj) ==
  IF obj = <<>> THEN <<>>
  ELSE IF Len(obj) = 1 THEN FormatFloat(obj[1])
  ELSE FormatFloat(obj[1]) \o <<" ">> \o VectorSpace_CreateStrFromObj(Substr(obj, 2))

RECURSIVE ReadVec(_, _, _)
\* the dense payload of a text: while (str >> val) v.push_back(val)
ReadVec(s, p, acc) ==
  LET r == ReadFloat(s, p)
  IN  IF ~r.ok THEN acc ELSE ReadVec(s, r.pos, Append(acc, r.val))

HasWhiteSpace(s) == \E i \in 1..Len(s) : IsSpace(s[i])

\* WordEmbedSpace<dist_t>::CreateStrFromObj(pObj, externId)
WordEmbed_CreateStrFromObj(obj, id) ==
  IF HasWhiteSpace(id) THEN [kind |-> "throw", str |-> <<>>]
  ELSE LET res == VectorSpace_CreateStrFromObj(obj)
       IN  [kind |-> "ok",
            str  |-> IF id # <<>> THEN id \o <<" ">> \o res ELSE res]

DenseVals == { <<1, 1>>, <<2, 0>> }      \* 0.1 and 2
DenseObjects == UNION { [1..n -> DenseVals] : n \in 1..MaxDim }
ExternIds == { <<>>, <<"a">>, <<"c", "a", "t">>, <<"a", " ", "b">> }

\* OpenWriteFileHeader has opened an empty output file
InitWordFile ==
  /\ stage = "writing"
  /\ out_file_ = <<>>
  /\ written = <<>>
  /\ wres = "none"
  /\ variant = "wordembed"
  /\ inp_file_ = OpenedFile(<<>>)
  /\ line_num_ = 0
  /\ strObj = <<>>
  /\ externId = <<>>
  /\ ret = "none"
  /\ InitPhaseIdle
  /\ InitRaceIdle
  /\ InitSparseIdle

\* Space::WriteNextObj(obj, externId, outState):
\* out_file_ << CreateStrFromObj(&obj, externId) << endl
WriteNextObj(obj, id) ==
  /\ stage = "writing"
  /\ Len(written) < MaxRecords
  /\ LET r == WordEmbed_CreateStrFromObj(obj, id)
     IN  IF r.kind = "throw"
           THEN /\ wres' = "throw"
                /\ UNCHANGED <<out_file_, written>>
           ELSE /\ wres' = "ok"
                /\ out_file_' = out_file_ \o r.str \o <<"\n">>
                /\ written' = Append(written, [id |-> id, obj |-> obj])
  /\ UNCHANGED <<stage, cursorVars, phaseVars, raceVars, sparseVars>>

\* the output file is closed and opened for reading: DataFileInputState(name)
OpenReadFileHeader ==
  /\ stage = "writing"
  /\ stage' = "reading"
  /\ inp_file_' = OpenedFile(out_file_)
  /\ line_num_' = 0
  /\ UNCHANGED <<variant, strObj, externId, ret, out_file_, written, wres,
                 phaseVars, raceVars, sparseVars>>

NextWordFile ==
  \/ \E obj \in DenseObjects : \E id \in ExternIds : WriteNextObj(obj, id)
  \/ OpenReadFileHeader
  \/ ReadNextObjStr_WordEmbed

SpecWordFile == InitWordFile /\ [][NextWordFile]_vars

----------------------------------------------------------------------------
(* The reading of a sparse line that the parsing steps describe: label     *)
(* token taken off, punctuation replaced, the rest cut into tokens         *)

RECURSIVE Tokens(_, _, _)
\* the maximal runs of non-blank characters of s from position p on
Tokens(s, p, acc) ==
  LET b == SkipWs(s, p)
      f == FirstSpaceFrom(s, b)
      e == IF f = 0 THEN Len(s) + 1 ELSE f
  IN  IF b > Len(s) THEN acc
      ELSE Tokens(s, e, Append(acc, SubSeq(s, b, e - 1)))

StatedTokens(s) == Tokens(ReplaceSomePunct(extractLabel(s).rest), 1, <<>>)

IsIndexTok(t) == Len(t) > 0 /\ \A i \in 1..Len(t) : IsDigit(t[i])
IsValueTok(t) == ReadFloat(t, 1).ok /\ ReadFloat(t, 1).pos = Len(t) + 1

WellFormed(ts) ==
  /\ Len(ts) % 2 = 0
  /\ \A i \in 1..Len(ts) :
       IF i % 2 = 1 THEN IsIndexTok(ts[i]) ELSE IsValueTok(ts[i])

PairsOf(ts) ==
  [i \in 1..(Len(ts) \div 2) |->
     [id_  |-> NumVal(ts[2 * i - 1], 1, Len(ts[2 * i - 1]) + 1),
      val_ |-> ReadFloat(ts[2 * i], 1).val]]

StatedPairs(s) == PairsOf(StatedTokens(s))

HasRepeatedIndex(ps) ==
  \E i, j \in 1..Len(ps) : i < j /\ ps[i].id_ = ps[j].id_
HasInversion(ps) ==
  \E i, j \in 1..Len(ps) : i < j /\ ps[j].id_ < ps[i].id_
StrictlyIncreasing(ps) ==
  \A i \in 1..(Len(ps) - 1) : ps[i].id_ < ps[i + 1].id_
SamePairs(ps, qs) ==
  /\ Len(ps) = Len(qs)
  /\ \A i \in 1..Len(ps) : \E j \in 1..Len(qs) : qs[j] = ps[i]

\* a line with no label token and no punctuation to replace
Plain(s) == ReplaceSomePunct(extractLabel(s).rest) = s

ExampleLine == Join(<<LabelToken, <<"1", "0">>, <<"1", ".", "5">>,
                      <<"5">>, <<"2", ".", "0">>>>)
PlainExampleLine == Join(<<<<"1", "0">>, <<"1", ".", "5">>,
                           <<"5">>, <<"2", ".", "0">>>>)
ExamplePairs == << [id_ |-> 5, val_ |-> <<2, 0>>],
                   [id_ |-> 10, val_ |-> <<15, 1>>] >>

----------------------------------------------------------------------------
(* Claims about the sparse parser (SpecSparse) *)

\* C3, as stated: a well-formed line that holds an index smaller than a
\* preceding one is rejected with the out-of-order error.  (Stated for lines
\* without label and punctuation, which the stream reads as the steps say.)
C3_OutOfOrderFails ==
  (outcome # "idle" /\ Plain(line) /\ WellFormed(StatedTokens(line))
     /\ HasInversion(StatedPairs(line)))
  => (outcome = "fatal" /\ err.kind = "NotSorted")

\* C3, amended: the pairs read are sorted by index before they are
\* validated, so the out-of-order error is never reported, an object that is
\* built has strictly increasing indices, the only fatal outcome is the
\* repeated index, and a plain well-formed line whose indices are distinct
\* but out of order is parsed into its pairs in increasing index order.
C3_SortedBeforeValidation ==
  outcome # "idle" =>
    /\ err.kind # "NotSorted"
    /\ outcome = "ok" => StrictlyIncreasing(v)
    /\ outcome = "fatal" => err.kind = "RepeatingID"
    /\ (Plain(line) /\ WellFormed(StatedTokens(line))
          /\ HasInversion(StatedPairs(line))
          /\ ~HasRepeatedIndex(StatedPairs(line)))
       => (outcome = "ok" /\ SamePairs(StatedPairs(line), v))

C3_Witness ==
  /\ line = PlainExampleLine
  /\ outcome = "ok"
  /\ v = ExamplePairs

\* C4, as stated: every well-formed line that holds the same index in two
\* pairs ends in the fatal failure, and the error reported is the repeated
\* index, naming two pairs of the line with that index.
C4_DuplicateFails ==
  (outcome # "idle" /\ WellFormed(StatedTokens(line))
     /\ HasRepeatedIndex(StatedPairs(line)))
  => /\ outcome = "fatal"
     /\ err.kind = "RepeatingID"
     /\ err.prevId = err.id
     /\ \E i, j \in 1..Len(StatedPairs(line)) :
          /\ i # j
          /\ StatedPairs(line)[i] = [id_ |-> err.prevId, val_ |-> err.prevVal]
          /\ StatedPairs(line)[j] = [id_ |-> err.id, val_ |-> err.val]

\* C5, as stated: a line made of an optional label token and well-formed
\* pairs with distinct indices is parsed into an object with that label and
\* all pairs of the line, sorted by index; the example line gives label 3
\* and [(5,2.0),(10,1.5)].
C5_LabelThenPairs ==
  (outcome # "idle" /\ WellFormed(StatedTokens(line))
     /\ ~HasRepeatedIndex(StatedPairs(line)))
  => /\ outcome = "ok"
     /\ label = extractLabel(line).label
     /\ SamePairs(StatedPairs(line), v)
     /\ StrictlyIncreasing(v)
     /\ line = ExampleLine => (label = 3 /\ v = ExamplePairs)

\* C6, as stated: a line with a token that is not a number where an index or
\* a value is due, or with an index that has no value, ends in the fatal
\* failure and no object is built.
C6_MalformedFails ==
  (outcome # "idle" /\ ~WellFormed(StatedTokens(line)))
  => outcome = "fatal"

----------------------------------------------------------------------------
(* Claims about record reading (SpecCursor, SpecWordFile) *)

\* the line that the last successful getline took from the stream
LastLine(f) ==
  LET e == IF f.pos > 0 /\ f.data[f.pos] = "\n" THEN f.pos - 1 ELSE f.pos
      starts == { i \in 1..(e + 1) : i = 1 \/ f.data[i - 1] = "\n" }
      b == CHOOSE i \in starts : \A j \in starts : j <= i
  IN  SubSeq(f.data, b, e)

\* lines of the data that lie before the position of the stream
LinesConsumed(f) ==
  Cardinality({ i \in 1..f.pos : f.data[i] = "\n" })
    + (IF f.pos > 0 /\ f.data[f.pos] # "\n" THEN 1 ELSE 0)

\* C7, as stated: the k-th line written by WriteNextObj with an id without
\* white space (the empty id included) is read back by ReadNextObjStr as a
\* record with that id and a text whose dense payload is the vector written.
C7_RoundTrip ==
  (stage = "reading" /\ ret \in {"true", "throw"}
     /\ line_num_ \in 1..Len(written))
  => /\ ret = "true"
     /\ externId = written[line_num_].id
     /\ ReadVec(strObj, 1, <<>>) = written[line_num_].obj

\* C8: a word-embedding line with white space is split at its first white
\* space into the id before it and the text after it; a line without white
\* space makes the call throw; the example line gives "cat" and
\* "0.1 0.2 0.3".
C8_SplitAtFirstSpace ==
  (variant = "wordembed" /\ ret \in {"true", "throw"}) =>
    LET ln == LastLine(inp_file_)
    IN  /\ IF \E k \in 1..Len(ln) : IsSpace(ln[k])
             THEN /\ ret = "true"
                  /\ \E k \in 1..Len(ln) :
                       /\ IsSpace(ln[k])
                       /\ \A j \in 1..(k - 1) : ~IsSpace(ln[j])
                       /\ externId = SubSeq(ln, 1, k - 1)
                       /\ strObj = SubSeq(ln, k + 1, Len(ln))
             ELSE ret = "throw"
        /\ inp_file_.data = ExampleFile =>
             /\ externId = <<"c", "a", "t">>
             /\ strObj = <<"0", ".", "1", " ", "0", ".", "2", " ", "0", ".", "3">>

C8_Witness ==
  /\ variant = "wordembed"
  /\ inp_file_.data = ExampleFile
  /\ ret = "true"
  /\ externId = <<"c", "a", "t">>

\* what C10 says of every call, but for the call that throws
CursorStep ==
  /\ line_num_ = LinesConsumed(inp_file_)
  /\ line_num_' = LinesConsumed(inp_file_')
  /\ ret' = "true" => line_num_' = line_num_ + 1
  /\ ret' = "false" => line_num_' = line_num_
  /\ ret = "false" => ret' = "false"

\* C10, as stated: line_num_ is the number of lines consumed, a call that
\* returns a record adds one, a call that returns end-of-data adds nothing
\* and is followed only by end-of-data, and a word-embedding call that
\* throws for lack of white space leaves line_num_ unchanged.
C10_ThrowKeepsLineNumber ==
  [][ CursorStep /\ (ret' = "throw" => line_num_' = line_num_) ]_vars

\* C10, amended: as stated, except that the word-embedding call that throws
\* for lack of white space has consumed its line and adds one to line_num_.
C10_LineCounter ==
  [][ CursorStep /\ (ret' = "throw" => line_num_' = line_num_ + 1) ]_vars

C10_Witness ==
  /\ variant = "wordembed"
  /\ ret = "throw"
  /\ line_num_ = 2
  /\ LinesConsumed(inp_file_) = 2

----------------------------------------------------------------------------
(* Claims about the phase protocol *)

\* C1: IndexTimeDistance throws PhaseViolation exactly when the last phase
\* switch made on the instance was SetQueryPhase; on a new instance, a new
\* clone, or after SetIndexPhase it returns the underlying distance.
C1_PhaseGate ==
  lastCall.inst # 0 =>
    /\ lastCall.hist = "query" => lastCall.res = PhaseViolation
    /\ lastCall.hist # "query" =>
         lastCall.res = Ok(HiddenDistance(spaces[lastCall.inst],
                                          lastCall.obj1, lastCall.obj2))

C1_Witness ==
  /\ lastCall.inst # 0
  /\ lastCall.hist = "query"
  /\ lastCall.res = PhaseViolation
  /\ Len(spaces) > 1

\* C2: a Clone step adds an instance in index-phase and changes no existing
\* instance; a phase switch on one instance changes no other instance.
C2_CloneIndependent ==
  [][ /\ op'.name = "Clone" =>
           /\ Len(spaces') = Len(spaces) + 1
           /\ spaces'[Len(spaces')].bIndexPhase = TRUE
           /\ \A j \in 1..Len(spaces) : spaces'[j] = spaces[j]
      /\ op'.name \in {"SetIndexPhase", "SetQueryPhase"} =>
           /\ Len(spaces') = Len(spaces)
           /\ \A j \in 1..Len(spaces) :
                j # op'.inst => spaces'[j] = spaces[j] ]_vars

C2_Witness ==
  /\ op.name = "Clone"
  /\ hist[op.inst] = "query"
  /\ ~spaces[op.inst].bIndexPhase
  /\ spaces[Len(spaces)].bIndexPhase

\* C9: the builder's IndexTimeDistance never throws PhaseViolation when the
\* querier switches only a clone; the failure is reachable (C9_Witness) when
\* both threads use instance 1.
C9_CloneIsSafe ==
  bres = PhaseViolation => (mode = "shared" /\ qspace = 1)

C9_Witness ==
  /\ mode = "shared"
  /\ bres = PhaseViolation
  /\ pc.builder = "idle"

====
